---- MODULE Spec2Model ----
(***************************************************************************)
(* Model of LLM.stream_response (src/llm_wrapper.py): the tool schema      *)
(* compiler, the transport request, the chunk loop with its think-marker   *)
(* state machine and tool-call accumulator, the structured-output decoder, *)
(* the tool dispatcher and the final/done events.                          *)
(*                                                                         *)
(* Text is a sequence of one-character strings.  The tokens "LF", "TAB"    *)
(* and "CR" stand for the newline, tab and carriage-return characters.     *)
(* None, an absent attribute and the empty string are all falsy in every   *)
(* test the code makes on a delta field ("if content:", "funct.name or     *)
(* ''", "tool_call.id or '0'"), so all three are the empty sequence.       *)
(*                                                                         *)
(* lm_studio_unload_model is False: the unload call (lines 113-119) is not  *)
(* entered.  The image codec is opaque and succeeds.  The transport is     *)
(* opaque: create() raises or returns a stream of chunks.                  *)
(***************************************************************************)
EXTENDS Integers, Sequences, FiniteSets, TLC

(***************************************************************************)
(* Python values: what json.loads returns and what events carry.           *)
(* t is the type tag; n the value of an int; s the text of a str (or the   *)
(* lexeme of a float); items the elements of a list, or the alternating    *)
(* key, value, key, value ... of a dict in insertion order.                *)
(***************************************************************************)
PyVal(t, n, s, items) == [t |-> t, n |-> n, s |-> s, items |-> items]

PyNone == PyVal("none", 0, <<>>, <<>>)

PyTrue == PyVal("true", 0, <<>>, <<>>)

PyFalse == PyVal("false", 0, <<>>, <<>>)

PyStr(s) == PyVal("str", 0, s, <<>>)

PyInt(n) == PyVal("int", n, <<>>, <<>>)

PyFloat(s) == PyVal("float", 0, s, <<>>)

PyList(items) == PyVal("list", 0, <<>>, items)

PyDict(items) == PyVal("dict", 0, <<>>, items)

(***************************************************************************)
(* str helpers                                                             *)
(***************************************************************************)
Drop(s, k) == SubSeq(s, k + 1, Len(s))

StartsWith(s, m) == Len(s) >= Len(m) /\ SubSeq(s, 1, Len(m)) = m

\* Python: m in s
Contains(s, m) == \E i \in 1..(Len(s) - Len(m) + 1) : SubSeq(s, i, i + Len(m) - 1) = m

RECURSIVE Replace(_, _)
\* Python: s.replace(m, ""), one left-to-right pass over non-overlapping matches
Replace(s, m) ==
    IF Len(s) < Len(m) THEN s
    ELSE IF StartsWith(s, m) THEN Replace(Drop(s, Len(m)), m)
    ELSE <<Head(s)>> \o Replace(Tail(s), m)

\* the characters str.strip() and the JSON decoder treat as whitespace
Whitespace == {" ", "LF", "TAB", "CR"}

RECURSIVE LStrip(_)
LStrip(s) == IF s # <<>> /\ Head(s) \in Whitespace THEN LStrip(Tail(s)) ELSE s

RECURSIVE RStrip(_)
RStrip(s) ==
    IF s # <<>> /\ s[Len(s)] \in Whitespace THEN RStrip(SubSeq(s, 1, Len(s) - 1)) ELSE s

\* Python: s.strip()
Strip(s) == RStrip(LStrip(s))

(***************************************************************************)
(* json.loads, as the decoder of the standard library scans: a result is   *)
(* [ok, v, rest]; ok = FALSE is json.JSONDecodeError.                      *)
(***************************************************************************)
JsonFail == [ok |-> FALSE, v |-> PyNone, rest |-> <<>>]

JsonOk(v, rest) == [ok |-> TRUE, v |-> v, rest |-> rest]

Digits == {"0", "1", "2", "3", "4", "5", "6", "7", "8", "9"}

DigitVal(c) ==
    CASE c = "0" -> 0 [] c = "1" -> 1 [] c = "2" -> 2 [] c = "3" -> 3 [] c = "4" -> 4
      [] c = "5" -> 5 [] c = "6" -> 6 [] c = "7" -> 7 [] c = "8" -> 8 [] c = "9" -> 9

RECURSIVE DigitRun(_)
\* length of the longest prefix of s made of digits
DigitRun(s) == IF s # <<>> /\ Head(s) \in Digits THEN 1 + DigitRun(Tail(s)) ELSE 0

RECURSIVE IntOf(_, _)
IntOf(s, acc) == IF s = <<>> THEN acc ELSE IntOf(Tail(s), 10 * acc + DigitVal(Head(s)))

\* the escapes of a JSON string literal (BACKSLASH dict of json.decoder)
JsonEscapes == {"\"", "\\", "/", "b", "f", "n", "r", "t"}

JsonEscape(c) ==
    CASE c = "\"" -> "\"" [] c = "\\" -> "\\" [] c = "/" -> "/" [] c = "b" -> "BS"
      [] c = "f" -> "FF" [] c = "n" -> "LF" [] c = "r" -> "CR" [] c = "t" -> "TAB"

\* characters a strict JSON string may not hold unescaped
ControlChars == {"LF", "TAB", "CR", "BS", "FF"}

RECURSIVE ScanString(_, _)
\* py_scanstring after the opening quote; \uXXXX escapes are outside the alphabet
ScanString(s, acc) ==
    IF s = <<>> THEN JsonFail
    ELSE IF Head(s) = "\"" THEN JsonOk(PyStr(acc), Tail(s))
    ELSE IF Head(s) = "\\" THEN
        IF Len(s) >= 2 /\ s[2] \in JsonEscapes
        THEN ScanString(Drop(s, 2), Append(acc, JsonEscape(s[2])))
        ELSE JsonFail
    ELSE IF Head(s) \in ControlChars THEN JsonFail
    ELSE ScanString(Tail(s), Append(acc, Head(s)))

\* NUMBER_RE = (-?(?:0|[1-9]\d*))(\.\d+)?([eE][-+]?\d+)?
ScanNumber(s) ==
    LET neg == s # <<>> /\ Head(s) = "-"
        body == IF neg THEN Tail(s) ELSE s
        ilen == IF body = <<>> \/ Head(body) \notin Digits THEN 0
                ELSE IF Head(body) = "0" THEN 1 ELSE DigitRun(body)
        afterInt == Drop(body, ilen)
        flen == IF afterInt # <<>> /\ Head(afterInt) = "." /\ DigitRun(Tail(afterInt)) > 0
                THEN 1 + DigitRun(Tail(afterInt)) ELSE 0
        afterFrac == Drop(afterInt, flen)
        signed == Len(afterFrac) >= 2 /\ afterFrac[2] \in {"+", "-"}
        expDigits == IF afterFrac # <<>> /\ Head(afterFrac) \in {"e", "E"}
                     THEN DigitRun(Drop(afterFrac, IF signed THEN 2 ELSE 1)) ELSE 0
        elen == IF expDigits > 0 THEN expDigits + (IF signed THEN 2 ELSE 1) ELSE 0
        total == (IF neg THEN 1 ELSE 0) + ilen + flen + elen
        mag == IntOf(SubSeq(body, 1, ilen), 0)
    IN  IF ilen = 0 THEN JsonFail
        ELSE IF flen + elen > 0 THEN JsonOk(PyFloat(SubSeq(s, 1, total)), Drop(s, total))
        ELSE JsonOk(PyInt(IF neg THEN 0 - mag ELSE mag), Drop(s, total))

RECURSIVE DictSet(_, _, _)
\* d[k] = v on the alternating key/value list: a repeated key keeps its place
DictSet(items, k, v) ==
    IF items = <<>> THEN <<k, v>>
    ELSE IF items[1] = k THEN <<k, v>> \o Drop(items, 2)
    ELSE <<items[1], items[2]>> \o DictSet(Drop(items, 2), k, v)

RECURSIVE ScanValue(_)
RECURSIVE ScanMembers(_, _)
RECURSIVE ScanElements(_, _)

\* JSONObject's loop, entered at the opening quote of a property name
ScanMembers(s, items) ==
    IF s = <<>> \/ Head(s) # "\"" THEN JsonFail
    ELSE LET key == ScanString(Tail(s), <<>>)
         IN  IF ~key.ok THEN JsonFail
             ELSE LET atColon == LStrip(key.rest)
                  IN  IF atColon = <<>> \/ Head(atColon) # ":" THEN JsonFail
                      ELSE LET val == ScanValue(LStrip(Tail(atColon)))
                           IN  IF ~val.ok THEN JsonFail
                               ELSE LET more == DictSet(items, key.v, val.v)
                                        next == LStrip(val.rest)
                                    IN  IF next = <<>> THEN JsonFail
                                        ELSE IF Head(next) = "}"
                                        THEN JsonOk(PyDict(more), Tail(next))
                                        ELSE IF Head(next) = ","
                                        THEN ScanMembers(LStrip(Tail(next)), more)
                                        ELSE JsonFail

\* JSONArray's loop, entered at the first character of an element
ScanElements(s, items) ==
    LET val == ScanValue(s)
    IN  IF ~val.ok THEN JsonFail
        ELSE LET more == Append(items, val.v)
                 next == LStrip(val.rest)
             IN  IF next = <<>> THEN JsonFail
                 ELSE IF Head(next) = "]" THEN JsonOk(PyList(more), Tail(next))
                 ELSE IF Head(next) = "," THEN ScanElements(LStrip(Tail(next)), more)
                 ELSE JsonFail

\* scan_once (py_make_scanner._scan_once)
ScanValue(s) ==
    IF s = <<>> THEN JsonFail
    ELSE IF Head(s) = "\"" THEN ScanString(Tail(s), <<>>)
    ELSE IF Head(s) = "{" THEN
        LET inner == LStrip(Tail(s))
        IN  IF inner # <<>> /\ Head(inner) = "}" THEN JsonOk(PyDict(<<>>), Tail(inner))
            ELSE ScanMembers(inner, <<>>)
    ELSE IF Head(s) = "[" THEN
        LET inner == LStrip(Tail(s))
        IN  IF inner # <<>> /\ Head(inner) = "]" THEN JsonOk(PyList(<<>>), Tail(inner))
            ELSE ScanElements(inner, <<>>)
    ELSE IF StartsWith(s, <<"n", "u", "l", "l">>) THEN JsonOk(PyNone, Drop(s, 4))
    ELSE IF StartsWith(s, <<"t", "r", "u", "e">>) THEN JsonOk(PyTrue, Drop(s, 4))
    ELSE IF StartsWith(s, <<"f", "a", "l", "s", "e">>) THEN JsonOk(PyFalse, Drop(s, 5))
    ELSE IF ScanNumber(s).ok THEN ScanNumber(s)
    ELSE IF StartsWith(s, <<"N", "a", "N">>) THEN JsonOk(PyFloat(SubSeq(s, 1, 3)), Drop(s, 3))
    ELSE IF StartsWith(s, <<"I", "n", "f", "i", "n", "i", "t", "y">>)
    THEN JsonOk(PyFloat(SubSeq(s, 1, 8)), Drop(s, 8))
    ELSE IF StartsWith(s, <<"-", "I", "n", "f", "i", "n", "i", "t", "y">>)
    THEN JsonOk(PyFloat(SubSeq(s, 1, 9)), Drop(s, 9))
    ELSE JsonFail

\* json.loads(s): JSONDecoder.decode = raw_decode after whitespace, then no extra data
JsonLoads(s) ==
    LET r == ScanValue(LStrip(s))
    IN  IF r.ok /\ LStrip(r.rest) = <<>> THEN JsonOk(r.v, <<>>) ELSE JsonFail

(***************************************************************************)
(* s.encode('utf-8').decode('unicode_escape') on ASCII text: [ok, s];      *)
(* ok = FALSE is UnicodeDecodeError.  An unknown escape is kept as it is.  *)
(* The numeric escapes are decoded only as far as telling a complete one   *)
(* from a truncated one: \x needs two hex digits.                          *)
(***************************************************************************)
HexDigits == Digits \cup {"a", "b", "c", "d", "e", "f", "A", "B", "C", "D", "E", "F"}

PyEscapes == {"\\", "'", "\"", "b", "f", "t", "n", "r", "LF"}

PyEscape(c) ==
    CASE c = "\\" -> <<"\\">> [] c = "'" -> <<"'">> [] c = "\"" -> <<"\"">>
      [] c = "b" -> <<"BS">> [] c = "f" -> <<"FF">> [] c = "t" -> <<"TAB">>
      [] c = "n" -> <<"LF">> [] c = "r" -> <<"CR">> [] c = "LF" -> <<>>

RECURSIVE UnicodeEscape(_, _)
UnicodeEscape(s, acc) ==
    IF s = <<>> THEN [ok |-> TRUE, s |-> acc]
    ELSE IF Head(s) # "\\" THEN UnicodeEscape(Tail(s), Append(acc, Head(s)))
    ELSE IF Len(s) = 1 THEN [ok |-> FALSE, s |-> <<>>]
    ELSE IF s[2] \in PyEscapes THEN UnicodeEscape(Drop(s, 2), acc \o PyEscape(s[2]))
    ELSE IF s[2] = "x" THEN
        IF Len(s) >= 4 /\ s[3] \in HexDigits /\ s[4] \in HexDigits
        THEN UnicodeEscape(Drop(s, 4), Append(acc, "HEX"))
        ELSE [ok |-> FALSE, s |-> <<>>]
    ELSE UnicodeEscape(Drop(s, 2), acc \o <<"\\", s[2]>>)

(***************************************************************************)
(* Inputs.  A tool of the caller's list is a record: kind "callable" (a    *)
(* native callable: __name__, __doc__ or "None", the type names of         *)
(* __annotations__ without "return", and fn, the identity of the function  *)
(* object), kind "dict" (a pre-built wire schema) or kind "other".         *)
(* Function names are identifiers, so __name__.strip() is the name itself. *)
(***************************************************************************)
Tool(kind, name, doc, params, fn) ==
    [kind |-> kind, name |-> name, doc |-> doc, params |-> params, fn |-> fn]

ToolF == Tool("callable", "f", "doc of f", <<"int">>, "f#1")

ToolF2 == Tool("callable", "f", "doc of f", <<>>, "f#2")

ToolNoDoc == Tool("callable", "h", "None", <<"str">>, "h#1")

ToolBadType == Tool("callable", "h", "doc of h", <<"str", "bytes">>, "h#1")

SchemaG == Tool("dict", "g", "schema of g", <<"string">>, "")

ToolOther == Tool("other", "", "", <<>>, "")

\* the tools argument: given = FALSE is tools=None
ToolsArg(given, list) == [given |-> given, list |-> list]

ToolsMenu ==
    { ToolsArg(FALSE, <<>>), ToolsArg(TRUE, <<ToolF, SchemaG, ToolF2>>),
      ToolsArg(TRUE, <<SchemaG, ToolNoDoc>>), ToolsArg(TRUE, <<ToolBadType>>),
      ToolsArg(TRUE, <<ToolF, ToolOther>>) }

\* text fragments
T_OPEN == <<"<", "t", "h", "i", "n", "k", ">">>

T_CLOSE == <<"<", "/", "t", "h", "i", "n", "k", ">">>

T_HELLO == <<"h", "e", "l", "l", "o">>

T_WORLD == <<"w", "o", "r", "l", "d">>

T_THINK_HELLO_WORLD == T_OPEN \o T_HELLO \o T_CLOSE \o T_WORLD

T_JSON_X == <<"{", "\"", "x", "\"", ":", " ", "1", "}">>

T_ESCAPED_X == <<"{", "\\", "\"", "x", "\\", "\"", ":", " ", "1", "}">>

T_ARGS_HEAD == <<"{", "\"", "a", "\"", ":", "1">>

T_ARGS_TAIL == <<"}">>

\* a tool-call fragment of a delta: id and function.name are "" when absent
Frag(id, name, arguments) == [id |-> id, name |-> name, arguments |-> arguments]

\* a chunk: delta = FALSE is a chunk whose choices[0].delta is None; choices is
\* whether chunk.choices has an element
Chunk(delta, content, reasoning, tool_calls) ==
    [choices |-> TRUE, delta |-> delta, content |-> content, reasoning |-> reasoning,
     tool_calls |-> tool_calls]

\* a chunk whose choices list is empty
NoChoices == [Chunk(FALSE, <<>>, <<>>, <<>>) EXCEPT !.choices = FALSE]

ContentChunks ==
    { Chunk(TRUE, c, <<>>, <<>>) :
        c \in {<<"a">>, <<" ">>, T_OPEN, T_CLOSE, T_THINK_HELLO_WORLD, T_JSON_X,
               T_ESCAPED_X} }

ReasoningChunks == { Chunk(TRUE, <<>>, r, <<>>) : r \in {<<"r">>, <<" ">>} }

ToolChunks ==
    { Chunk(TRUE, <<>>, <<>>, <<f>>) :
        f \in {Frag("1", "f", T_ARGS_HEAD), Frag("1", "", T_ARGS_TAIL),
               Frag("", "g", <<>>), Frag("2", "f", <<"1">>)} }

MixedChunks ==
    { Chunk(TRUE, <<"a">>, <<"r">>, <<>>),
      Chunk(TRUE, <<>>, <<>>, <<Frag("2", "g", <<"x">>), Frag("", "f", <<"{", "}">>)>>),
      Chunk(TRUE, <<>>, <<>>, <<>>),
      Chunk(FALSE, <<>>, <<>>, <<>>) }

MalformedChunks == {NoChoices}

ChunkMenu ==
    ContentChunks \cup ReasoningChunks \cup ToolChunks \cup MixedChunks
        \cup MalformedChunks

(***************************************************************************)
(* Message content.  A block has a type, the set of source keys it holds   *)
(* and the value under image_url: form "str" (a bare string), "dict" (an   *)
(* object with a url) or "none".                                           *)
(***************************************************************************)
UrlValue(form, url) == [form |-> form, url |-> url]

NoUrl == UrlValue("none", "")

Block(type, keys, image_url) == [type |-> type, keys |-> keys, image_url |-> image_url]

TextBlock == Block("text", {}, NoUrl)

ImagePath == Block("image", {"image_path"}, NoUrl)

ImagePil == Block("image", {"image_pil"}, NoUrl)

ImageUrlStr == Block("image", {"image_url"}, UrlValue("str", "http://x"))

ImageUrlObj == Block("image", {"image_url"}, UrlValue("dict", "http://x"))

ImagePathAndUrl == Block("image", {"image_path", "image_url"}, UrlValue("str", "http://x"))

\* a block that declares image and supplies no source
ImageBare == Block("image", {}, NoUrl)

\* the content lists a message may have
MessageMenu ==
    { <<>>, <<TextBlock>>, <<ImagePath, TextBlock>>, <<ImagePil>>,
      <<ImageUrlStr, ImageUrlObj>>, <<ImagePathAndUrl>>, <<TextBlock, ImageBare>> }

\* the longest message list explored
MaxMessages == 2

MessageLists == UNION { [1..n -> MessageMenu] : n \in 1..MaxMessages }

\* the longest delta sequence explored
MaxChunks == 2

VARIABLES
    messages,               \* "given" or "None"
    output_format,          \* "schema" or "None"
    final,                  \* BOOLEAN
    tools,                  \* ToolsArg
    hide_thinking,          \* BOOLEAN
    vllm_mode,              \* BOOLEAN: self.vllm_mode
    blocks,                 \* the content lists of messages as the caller passed them
    message_content,        \* the content lists of messages as they are now
    response,               \* LLM.response: [state, value], state "" when not called
    pc,                     \* where the generator stands
    raised,                 \* the exception that left the generator, "" if none
    request,                \* the transport call: [sent, tools, response_format]
    callable_tools,         \* name -> fn
    structured_output,      \* BOOLEAN
    thinking,               \* str
    answer,                 \* str: the text accumulated by the chunk loop
    data,                   \* the value bound to answer at line 206
    inside_think,           \* BOOLEAN
    tool_calls_accumulator, \* the dict as its items in insertion order
    final_tool_calls,       \* list of [id, name, arguments]
    todo,                   \* what is left of the copy final_tool_calls[:]
    events,                 \* what the generator has yielded
    deltas,                 \* the chunks consumed so far
    invocations             \* the calls made to registered callables: [id, fn]

vars ==
    <<messages, output_format, final, tools, hide_thinking, vllm_mode, blocks,
      message_content, response, pc, raised, request, callable_tools, structured_output, thinking, answer, data, inside_think,
      tool_calls_accumulator, final_tool_calls, todo, events, deltas, invocations>>

inputs == <<messages, output_format, final, tools, hide_thinking, vllm_mode, blocks>>

Event(type, content) == [type |-> type, content |-> content]

NoRequest == [sent |-> FALSE, tools |-> <<>>, response_format |-> "None"]

\* the payload of a final event; keys are the keys the dict has
Payload(keys, reasoning, value, pending) ==
    [keys |-> keys, reasoning |-> reasoning, answer |-> value, tool_calls |-> pending]

\* stream_response is iterated by the caller itself
NotCalled == [state |-> "", value |-> Payload({}, <<>>, PyNone, <<>>)]

\* what every call starts from, whatever its arguments (lines 145-148)
Fresh ==
    /\ message_content = blocks
    /\ pc = "start"
    /\ raised = ""
    /\ request = NoRequest
    /\ callable_tools = <<>>
    /\ structured_output = FALSE
    /\ thinking = <<>>
    /\ answer = <<>>
    /\ data = PyNone
    /\ inside_think = FALSE
    /\ tool_calls_accumulator = <<>>
    /\ final_tool_calls = <<>>
    /\ todo = <<>>
    /\ events = <<>>
    /\ deltas = <<>>
    /\ invocations = <<>>

Init ==
    /\ messages \in {"given", "None"}
    /\ output_format \in {"schema", "None"}
    /\ final \in BOOLEAN
    /\ tools \in ToolsMenu
    /\ hide_thinking \in BOOLEAN
    /\ vllm_mode = FALSE
    /\ blocks = <<<<TextBlock>>>>
    /\ response = NotCalled
    /\ Fresh

(***************************************************************************)
(* Tool schema compiler (lines 38-78)                                      *)
(***************************************************************************)
TypeNames == {"str", "int", "float", "bool", "list", "dict"}

\* the types table of lines 41-48
Types(v) ==
    CASE v = "str" -> "string" [] v = "int" -> "integer" [] v = "float" -> "number"
      [] v = "bool" -> "boolean" [] v = "list" -> "array" [] v = "dict" -> "object"

\* the wire schema of lines 62-73: every parameter typed and required
FunctionSchema(t) ==
    Tool("dict", t.name, t.doc, [i \in 1..Len(t.params) |-> Types(t.params[i])], "")

\* what compiling one callable raises, "" if nothing
CallableError(t) ==
    IF t.doc = "None" THEN "AttributeError"
    ELSE IF \E i \in 1..Len(t.params) : t.params[i] \notin TypeNames THEN "KeyError"
    ELSE ""

RECURSIVE CompileFrom_RegistersSchemas(_, _, _, _)
\* mutant: a pre-built schema is entered in callable_tools under its name
CompileFrom_RegistersSchemas(list, i, _tools, callables) ==
    IF i > Len(list) THEN [err |-> "", _tools |-> _tools, callable_tools |-> callables]
    ELSE IF list[i].kind = "other"
    THEN [err |-> "ValueError", _tools |-> _tools, callable_tools |-> callables]
    ELSE IF CallableError(list[i]) # "" /\ list[i].kind = "callable"
    THEN [err |-> CallableError(list[i]), _tools |-> _tools, callable_tools |-> callables]
    ELSE CompileFrom_RegistersSchemas(list, i + 1,
             [_tools EXCEPT ![i] = IF list[i].kind = "callable" THEN FunctionSchema(list[i])
                                   ELSE list[i]],
             [n \in DOMAIN callables \cup {list[i].name} |->
                IF n = list[i].name THEN list[i].fn ELSE callables[n]])

RECURSIVE CompileFrom(_, _, _, _)
\* the loop of line 49 from index i on: [err, _tools, callable_tools]
CompileFrom(list, i, _tools, callables) ==
    IF i > Len(list) THEN [err |-> "", _tools |-> _tools, callable_tools |-> callables]
    ELSE IF list[i].kind = "callable" THEN
        IF CallableError(list[i]) # ""
        THEN [err |-> CallableError(list[i]), _tools |-> _tools, callable_tools |-> callables]
        ELSE CompileFrom(list, i + 1, [_tools EXCEPT ![i] = FunctionSchema(list[i])],
                         [n \in DOMAIN callables \cup {list[i].name} |->
                            IF n = list[i].name THEN list[i].fn ELSE callables[n]])
    ELSE IF list[i].kind = "dict" THEN CompileFrom(list, i + 1, _tools, callables)
    ELSE [err |-> "ValueError", _tools |-> _tools, callable_tools |-> callables]

\* lines 38-78: _tools = list(tools) if tools else []
Compile(arg) == CompileFrom(arg.list, 1, arg.list, <<>>)

\* the tools keyword of chat.completions.create (lines 129 and 140)
RequestTools(arg, _tools) == IF arg.given THEN arg.list ELSE <<>>

\* the keyword arguments of lines 125-131 and 136-141
CreateRequest(arg, _tools, format) ==
    [sent |-> TRUE, tools |-> RequestTools(arg, _tools), response_format |-> format]

\* the data URI of lines 93-96 and 102-105: the PNG of the image the source names
DataUri(source) ==
    IF source = "image_path" THEN UrlValue("dict", "data:image/png;base64,<image_path>")
    ELSE UrlValue("dict", "data:image/png;base64,<image_pil>")

\* lines 88-111 for one block
NormalizeBlock(c) ==
    IF c.type # "image" THEN c
    ELSE IF "image_path" \in c.keys THEN Block("image_url", {"image_url"}, DataUri("image_path"))
    ELSE IF "image_pil" \in c.keys THEN Block("image_url", {"image_url"}, DataUri("image_pil"))
    ELSE IF "image_url" \in c.keys
    THEN Block("image_url", {"image_url"}, UrlValue("dict", c.image_url.url))
    ELSE c

\* lines 83-111: every block of every message, when vllm_mode
Normalize(vllm, msgs) ==
    IF vllm
    THEN [m \in DOMAIN msgs |-> [i \in DOMAIN msgs[m] |-> NormalizeBlock(msgs[m][i])]]
    ELSE msgs

\* the call of stream_response up to the chunk loop (lines 38-148)
Start ==
    /\ pc = "start"
    /\ LET c == Compile(tools)
       IN  IF c.err # "" THEN
               /\ pc' = "raised"
               /\ raised' = c.err
               /\ UNCHANGED <<message_content, request, callable_tools, structured_output>>
           ELSE IF messages = "None" THEN
               /\ pc' = "raised"
               /\ raised' = "ValueError"
               /\ callable_tools' = c.callable_tools
               /\ UNCHANGED <<message_content, request, structured_output>>
           ELSE \E created \in BOOLEAN :
               /\ message_content' = Normalize(vllm_mode, message_content)
               /\ callable_tools' = c.callable_tools
               /\ structured_output' = (output_format # "None")
               /\ request' = CreateRequest(tools, c._tools, output_format)
               /\ pc' = IF created THEN "stream" ELSE "raised"
               /\ raised' = IF created THEN "" ELSE "RuntimeError"
    /\ UNCHANGED <<inputs, response, thinking, answer, data, inside_think,
                   tool_calls_accumulator, final_tool_calls, todo, events, deltas,
                   invocations>>

(***************************************************************************)
(* The chunk loop (lines 152-194)                                          *)
(***************************************************************************)
\* lines 165-167: [inside_think, content] after the open marker is looked for
AfterOpen(inside, content) ==
    IF Contains(content, T_OPEN)
    THEN [inside_think |-> TRUE, content |-> Replace(content, T_OPEN)]
    ELSE [inside_think |-> inside, content |-> content]

\* lines 168-170, on what lines 165-167 left
AfterClose(st) ==
    IF Contains(st.content, T_CLOSE)
    THEN [inside_think |-> FALSE, content |-> Replace(st.content, T_CLOSE)]
    ELSE st

\* mutant: the close marker is handled before the open marker
Markers_CloseFirst(inside, content) ==
    LET st == AfterClose([inside_think |-> inside, content |-> content])
    IN  AfterOpen(st.inside_think, st.content)

\* lines 165-170
Markers(inside, content) == AfterClose(AfterOpen(inside, content))

\* mutant: reasoning events are yielded whatever hide_thinking says
YieldsReasoning_Always(hide) == TRUE

\* line 173: is the reasoning event of a content fragment yielded
YieldsReasoning(hide) == ~hide

\* mutant: answer fragments are streamed even when a schema was requested
YieldsAnswer_Always(structured) == TRUE

\* line 177: is the answer event of a content fragment yielded
YieldsAnswer(structured) == ~structured

\* mutant: the events carry the fragment as it arrived, markers included
ContentEvents_RawFragment(c, inside, hide, structured) ==
    IF c.content = <<>> THEN <<>>
    ELSE IF Markers(inside, c.content).inside_think
         THEN IF YieldsReasoning(hide) THEN <<Event("reasoning", PyStr(c.content))>>
              ELSE <<>>
         ELSE IF YieldsAnswer(structured) THEN <<Event("answer", PyStr(c.content))>>
              ELSE <<>>

\* lines 164-178: the events of a chunk's content
ContentEvents(c, inside, hide, structured) ==
    IF c.content = <<>> THEN <<>>
    ELSE LET m == Markers(inside, c.content)
         IN  IF m.inside_think
             THEN IF YieldsReasoning(hide) THEN <<Event("reasoning", PyStr(m.content))>>
                  ELSE <<>>
             ELSE IF YieldsAnswer(structured) THEN <<Event("answer", PyStr(m.content))>>
                  ELSE <<>>

\* mutant: the reasoning signal is looked at only when the chunk has no content
ReasoningEvents_Alone(c, hide) ==
    IF c.content = <<>> /\ c.reasoning # <<>> /\ YieldsReasoning(hide)
    THEN <<Event("reasoning", PyStr(c.reasoning))>> ELSE <<>>

\* lines 180-183: the events of a chunk's reasoning signal
ReasoningEvents(c, hide) ==
    IF c.reasoning # <<>> /\ YieldsReasoning(hide)
    THEN <<Event("reasoning", PyStr(c.reasoning))>> ELSE <<>>

\* position of tool_id in the accumulator, 0 if it has no entry
AccIndex(acc, tool_id) ==
    IF \E i \in 1..Len(acc) : acc[i].id = tool_id
    THEN CHOOSE i \in 1..Len(acc) : acc[i].id = tool_id
    ELSE 0

\* mutant: a fragment replaces the buffer instead of extending it
AddArguments_Replace(buffer, arguments) == arguments

\* line 194: the buffer of an entry after one more fragment
AddArguments(buffer, arguments) == buffer \o arguments

\* mutant: a fragment without an id goes to the entry opened last
Accumulate_IdlessToLast(acc, frag) ==
    LET tool_id == IF frag.id # "" THEN frag.id
                   ELSE IF acc # <<>> THEN acc[Len(acc)].id ELSE "0"
        with == IF AccIndex(acc, tool_id) = 0
                THEN Append(acc, [id |-> tool_id, name |-> frag.name, arguments |-> <<>>])
                ELSE acc
        i == AccIndex(with, tool_id)
        named == IF frag.name # "" THEN [with EXCEPT ![i].name = frag.name] ELSE with
    IN  IF frag.arguments # <<>>
        THEN [named EXCEPT ![i].arguments = AddArguments(@, frag.arguments)]
        ELSE named

\* mutant: the name of every fragment is stored, an empty one too
Accumulate_EmptyNameStored(acc, frag) ==
    LET tool_id == IF frag.id # "" THEN frag.id ELSE "0"
        with == IF AccIndex(acc, tool_id) = 0
                THEN Append(acc, [id |-> tool_id, name |-> frag.name, arguments |-> <<>>])
                ELSE acc
        i == AccIndex(with, tool_id)
        named == [with EXCEPT ![i].name = frag.name]
    IN  IF frag.arguments # <<>>
        THEN [named EXCEPT ![i].arguments = AddArguments(@, frag.arguments)]
        ELSE named

\* lines 187-194 for one fragment
Accumulate(acc, frag) ==
    LET tool_id == IF frag.id # "" THEN frag.id ELSE "0"
        with == IF AccIndex(acc, tool_id) = 0
                THEN Append(acc, [id |-> tool_id, name |-> frag.name, arguments |-> <<>>])
                ELSE acc
        i == AccIndex(with, tool_id)
        named == IF frag.name # "" THEN [with EXCEPT ![i].name = frag.name] ELSE with
    IN  IF frag.arguments # <<>>
        THEN [named EXCEPT ![i].arguments = AddArguments(@, frag.arguments)]
        ELSE named

RECURSIVE AccumulateAll(_, _)
\* the loop of line 186
AccumulateAll(acc, frags) ==
    IF frags = <<>> THEN acc ELSE AccumulateAll(Accumulate(acc, Head(frags)), Tail(frags))

\* lines 154-155 and 161-162
Skipped(c) == ~c.delta \/ (c.content = <<>> /\ c.tool_calls = <<>> /\ c.reasoning = <<>>)

\* mutant: every tool-call fragment is surfaced as it arrives
ToolEvents_PerFragment(c) ==
    [i \in 1..Len(c.tool_calls) |->
        Event("tool_call", [id |-> c.tool_calls[i].id, name |-> c.tool_calls[i].name,
                            arguments |-> PyStr(c.tool_calls[i].arguments)])]

\* lines 185-194: the events of a chunk's tool-call fragments: none
ToolEvents(c) == <<>>

\* one iteration of the loop of line 152 on the next chunk of the stream; choices[0]
\* of an empty choices list is an IndexError that leaves the generator (line 153)
Consume(c) ==
    /\ pc = "stream"
    /\ Len(deltas) < MaxChunks
    /\ deltas' = Append(deltas, c)
    /\ pc' = IF c.choices THEN "stream" ELSE "raised"
    /\ raised' = IF c.choices THEN "" ELSE "IndexError"
    /\ IF ~c.choices \/ Skipped(c) THEN
           UNCHANGED <<thinking, answer, inside_think, tool_calls_accumulator, events>>
       ELSE
           LET m == IF c.content # <<>> THEN Markers(inside_think, c.content)
                    ELSE [inside_think |-> inside_think, content |-> <<>>]
           IN  /\ inside_think' = m.inside_think
               /\ thinking' = (IF m.inside_think THEN thinking \o m.content ELSE thinking)
                                \o c.reasoning
               /\ answer' = IF m.inside_think THEN answer ELSE answer \o m.content
               /\ events' = events
                              \o ContentEvents(c, inside_think, hide_thinking, structured_output)
                              \o ReasoningEvents(c, hide_thinking)
                              \o ToolEvents(c)
               /\ tool_calls_accumulator' = AccumulateAll(tool_calls_accumulator, c.tool_calls)
    /\ UNCHANGED <<inputs, message_content, response, request, callable_tools,
                   structured_output, data, final_tool_calls, todo, invocations>>

\* the stream is exhausted: the loop of line 152 ends
EndOfStream ==
    /\ pc = "stream"
    /\ pc' = "decode"
    /\ UNCHANGED <<inputs, message_content, response, raised, request, callable_tools,
                   structured_output, thinking, answer, data, inside_think,
                   tool_calls_accumulator, final_tool_calls, todo, events, deltas,
                   invocations>>

(***************************************************************************)
(* After the stream (lines 196-267)                                        *)
(***************************************************************************)
\* mutant: no second attempt, the raw text at once
LenientDecode_RawText(text) == PyStr(text)

\* lines 201-205: the fallback once json.loads(answer) has raised
LenientDecode(text) ==
    LET decoded == UnicodeEscape(text, <<>>)
    IN  IF decoded.ok /\ JsonLoads(decoded.s).ok THEN JsonLoads(decoded.s).v
        ELSE PyStr(text)

\* lines 197-206: the value bound to answer
StructuredDecode(text) ==
    IF JsonLoads(text).ok THEN JsonLoads(text).v ELSE LenientDecode(text)

\* lines 196-207
Decode ==
    /\ pc = "decode"
    /\ pc' = "finalize"
    /\ IF structured_output THEN
           /\ data' = StructuredDecode(answer)
           /\ events' = Append(events, Event("answer", data'))
       ELSE
           /\ data' = PyStr(answer)
           /\ UNCHANGED events
    /\ UNCHANGED <<inputs, message_content, response, raised, request, callable_tools,
                   structured_output, thinking, answer, inside_think,
                   tool_calls_accumulator, final_tool_calls, todo, deltas, invocations>>

\* lines 211-214: the arguments of a finalized call
FinalArguments(buffer) ==
    LET text == IF buffer # <<>> THEN buffer ELSE <<"{", "}">>
    IN  IF JsonLoads(text).ok THEN JsonLoads(text).v
        ELSE PyDict(<<PyStr(<<"_", "r", "a", "w">>), PyStr(buffer)>>)

\* line 215
FinalCall(entry) ==
    [id |-> entry.id, name |-> entry.name, arguments |-> FinalArguments(entry.arguments)]

\* lines 209-215, and the copy final_tool_calls[:] the loop of line 217 walks
Finalize ==
    /\ pc = "finalize"
    /\ pc' = "dispatch"
    /\ final_tool_calls' =
           [i \in 1..Len(tool_calls_accumulator) |-> FinalCall(tool_calls_accumulator[i])]
    /\ todo' = final_tool_calls'
    /\ UNCHANGED <<inputs, message_content, response, raised, request, callable_tools,
                   structured_output, thinking, answer, data, inside_think,
                   tool_calls_accumulator, events, deltas, invocations>>

RECURSIVE Remove(_, _)
\* list.remove(x): the first element equal to x goes
Remove(list, x) ==
    IF list = <<>> THEN list
    ELSE IF Head(list) = x THEN Tail(list)
    ELSE <<Head(list)>> \o Remove(Tail(list), x)

\* mutant: a call whose callable raised stays pending
AfterInvocation_KeepOnRaise(pending, call, returned) ==
    IF returned THEN Remove(pending, call) ELSE pending

\* lines 231 and 235: the pending list once a registered callable was tried
AfterInvocation(pending, call, returned) == Remove(pending, call)

\* the value fn returns: opaque, told apart by the function that made it
Result(fn) == PyStr(<<fn>>)

\* line 220
Registered(name) == name \in DOMAIN callable_tools

\* one iteration of the loop of line 217; returned = FALSE is the callable raising
Dispatch ==
    /\ pc = "dispatch"
    /\ todo # <<>>
    /\ todo' = Tail(todo)
    /\ LET tool_call == Head(todo)
           fn == callable_tools[tool_call.name]
       IN  IF Registered(tool_call.name) THEN
               \* f(**arguments) is a TypeError before the call unless arguments is a dict
               IF tool_call.arguments.t # "dict" THEN
                   /\ final_tool_calls' = AfterInvocation(final_tool_calls, tool_call, FALSE)
                   /\ UNCHANGED <<events, invocations>>
               ELSE \E returned \in BOOLEAN :
                   /\ invocations' = Append(invocations, [id |-> tool_call.id, fn |-> fn])
                   /\ final_tool_calls' =
                          AfterInvocation(final_tool_calls, tool_call, returned)
                   /\ events' =
                          IF returned
                          THEN Append(events, Event("tool_result",
                                   [name |-> tool_call.name, result |-> Result(fn)]))
                          ELSE events
           ELSE
               /\ events' = Append(events, Event("tool_call", tool_call))
               /\ UNCHANGED <<final_tool_calls, invocations>>
    /\ UNCHANGED <<inputs, message_content, response, pc, raised, request, callable_tools,
                   structured_output, thinking, answer, data, inside_think,
                   tool_calls_accumulator, deltas>>

\* mutant: only the empty accumulator counts as no reasoning
WithReasoning_NonEmpty(hide, text) == ~(hide \/ text = <<>>)

\* lines 241 and 253: is the reasoning key part of the summary
WithReasoning(hide, text) == ~(hide \/ Strip(text) = <<>>)

\* lines 242-266: the dict of the final event; keys are the keys it has
FinalPayload(hide, text, value, pending) ==
    [keys |-> {"answer"}
                \cup (IF WithReasoning(hide, text) THEN {"reasoning"} ELSE {})
                \cup (IF pending # <<>> THEN {"tool_calls"} ELSE {}),
     reasoning |-> IF WithReasoning(hide, text) THEN text ELSE <<>>,
     answer |-> value,
     tool_calls |-> pending]

\* mutant: the summary is yielded whether requested or not
YieldsFinal_Always(requested) == TRUE

\* line 240: is the final event yielded
YieldsFinal(requested) == requested

\* lines 240-266, once the loop of line 217 has ended
Summary ==
    /\ pc = "dispatch"
    /\ todo = <<>>
    /\ pc' = "sentinel"
    /\ events' =
           IF YieldsFinal(final)
           THEN Append(events, Event("final",
                    FinalPayload(hide_thinking, thinking, data, final_tool_calls)))
           ELSE events
    /\ UNCHANGED <<inputs, message_content, response, raised, request, callable_tools,
                   structured_output, thinking, answer, data, inside_think,
                   tool_calls_accumulator, final_tool_calls, todo, deltas, invocations>>

\* mutant: the sentinel is yielded under "if final:" only
Done_OnlyWithFinal ==
    /\ pc = "sentinel"
    /\ pc' = "done"
    /\ events' = IF final THEN Append(events, Event("done", PyNone)) ELSE events
    /\ UNCHANGED <<inputs, message_content, response, raised, request, callable_tools,
                   structured_output, thinking, answer, data, inside_think,
                   tool_calls_accumulator, final_tool_calls, todo, deltas, invocations>>

\* line 267, after which the generator is exhausted
Done ==
    /\ pc = "sentinel"
    /\ pc' = "done"
    /\ events' = Append(events, Event("done", PyNone))
    /\ UNCHANGED <<inputs, message_content, response, raised, request, callable_tools,
                   structured_output, thinking, answer, data, inside_think,
                   tool_calls_accumulator, final_tool_calls, todo, deltas, invocations>>

Next ==
    \/ Start
    \/ \E c \in ChunkMenu : Consume(c)
    \/ EndOfStream
    \/ Decode
    \/ Finalize
    \/ Dispatch
    \/ Summary
    \/ Done

Spec == Init /\ [][Next]_vars

(***************************************************************************)
(* Properties                                                              *)
(***************************************************************************)
Indices(type) == {i \in 1..Len(events) : events[i].type = type}

Count(type) == Cardinality(Indices(type))

Last(s) == s[Len(s)]

\* the generator has run past the chunk loop and the decoder
Decoded == pc \in {"finalize", "dispatch", "sentinel", "done"}

\* the generator has run past the dispatcher
Dispatched == pc \in {"sentinel", "done"}

\* C1: a completed event sequence holds exactly one done event and it is the last
\* event; before completion no done event has been emitted.
C1_ExactlyOneDoneLast ==
    /\ pc = "done" => /\ Count("done") = 1
                      /\ events # <<>>
                      /\ Last(events).type = "done"
    /\ pc # "done" => Count("done") = 0

C1_Witness == pc = "done" /\ deltas = <<>> /\ Len(events) = 1

\* C2: once the single fragment "<think>hello</think>world" has been consumed as the
\* first chunk, the answer accumulator is "world" and the reasoning accumulator "hello".
C2_ThinkHelloWorldSplit ==
    deltas = <<Chunk(TRUE, T_THINK_HELLO_WORLD, <<>>, <<>>)>>
        => answer = T_WORLD /\ thinking = T_HELLO

\* C3: with final requested a completed sequence holds exactly one final event,
\* immediately followed by the single done event; with final not requested no final
\* event is ever emitted.
C3_FinalThenDone ==
    /\ ~final => Count("final") = 0
    /\ final /\ pc = "sentinel" => Count("final") = 1 /\ Last(events).type = "final"
    /\ final /\ pc = "done" =>
           /\ Count("final") = 1
           /\ Count("done") = 1
           /\ Len(events) >= 2
           /\ events[Len(events) - 1].type = "final"
           /\ events[Len(events)].type = "done"

C3_Witness ==
    final /\ pc = "done" /\ answer = <<>> /\ thinking = <<>> /\ Len(events) = 2

\* the tool-call fragments of the chunks consumed, in arrival order
RECURSIVE FragmentsOf(_)
FragmentsOf(chunks) ==
    IF chunks = <<>> THEN <<>>
    ELSE (IF Head(chunks).delta THEN Head(chunks).tool_calls ELSE <<>>)
           \o FragmentsOf(Tail(chunks))

\* the id a fragment counts for: an absent id is "0"
IdOf(frag) == IF frag.id = "" THEN "0" ELSE frag.id

RECURSIVE ArgumentText(_, _)
\* the argument fragments received for id, concatenated in arrival order
ArgumentText(frags, id) ==
    IF frags = <<>> THEN <<>>
    ELSE (IF IdOf(Head(frags)) = id THEN Head(frags).arguments ELSE <<>>)
           \o ArgumentText(Tail(frags), id)

SeenIds == {IdOf(FragmentsOf(deltas)[i]) : i \in 1..Len(FragmentsOf(deltas))}

RawKey == PyStr(<<"_", "r", "a", "w">>)

ParsedArguments(text) ==
    IF text = <<>> THEN PyDict(<<>>)
    ELSE IF JsonLoads(text).ok THEN JsonLoads(text).v
    ELSE PyDict(<<RawKey, PyStr(text)>>)

\* the finalized list is still whole: no call has been dispatched yet
JustFinalized == pc = "dispatch" /\ Len(todo) = Len(tool_calls_accumulator)

\* C4: when the accumulator has been finalized, every id seen in the stream has exactly
\* one finalized call, whose arguments are the JSON parse of the concatenation of that
\* id's argument fragments in arrival order ({} for an empty buffer, {"_raw": text}
\* when the text is not JSON), and finalization has raised nothing; the fragments
\* {"a":1 then } of one id finalize to {"a": 1}.
C4_ArgumentsFinalized ==
    JustFinalized =>
        /\ raised = ""
        /\ Len(final_tool_calls) = Cardinality(SeenIds)
        /\ \A id \in SeenIds :
               \E i \in 1..Len(final_tool_calls) :
                   /\ final_tool_calls[i].id = id
                   /\ final_tool_calls[i].arguments =
                          ParsedArguments(ArgumentText(FragmentsOf(deltas), id))
        /\ deltas = <<Chunk(TRUE, <<>>, <<>>, <<Frag("1", "f", T_ARGS_HEAD)>>),
                      Chunk(TRUE, <<>>, <<>>, <<Frag("1", "", T_ARGS_TAIL)>>)>>
               => final_tool_calls[1].arguments = PyDict(<<PyStr(<<"a">>), PyInt(1)>>)

C4_Witness ==
    /\ JustFinalized
    /\ Len(deltas) = 2
    /\ Len(final_tool_calls) = 1
    /\ final_tool_calls[1].id = "1"
    /\ final_tool_calls[1].arguments = PyDict(<<PyStr(<<"a">>), PyInt(1)>>)

\* the names of the native callables of the caller's tool list
CallableNames == {tools.list[i].name : i \in {j \in 1..Len(tools.list) : tools.list[j].kind = "callable"}}

Unmatched(call) == call.name \notin CallableNames

\* the finalized calls that match no registered callable, in finalization order
ExpectedPending ==
    SelectSeq([i \in 1..Len(tool_calls_accumulator) |-> FinalCall(tool_calls_accumulator[i])],
              Unmatched)

IsToolCallEvent(e) == e.type = "tool_call"

\* C5: after dispatch the pending list is exactly the finalized calls that match no
\* registered callable, in finalization order, whether the matching invocations
\* returned or raised; the final summary carries that list; no call is invoked twice;
\* every call has been processed; the tool_call events are exactly the unmatched calls
\* and every tool_result event belongs to an invocation; the dispatcher raises nothing
\* and can always take its next step, up to the final and done events.
C5_PendingAfterDispatch ==
    /\ \A i, j \in 1..Len(invocations) : invocations[i].id = invocations[j].id => i = j
    /\ pc = "dispatch" => raised = "" /\ ENABLED (Dispatch \/ Summary)
    /\ pc = "sentinel" => raised = "" /\ ENABLED Done
    /\ Dispatched =>
           /\ todo = <<>>
           /\ final_tool_calls = ExpectedPending
           /\ Len(SelectSeq(events, IsToolCallEvent)) = Len(ExpectedPending)
           /\ \A i \in 1..Len(ExpectedPending) :
                  SelectSeq(events, IsToolCallEvent)[i].content = ExpectedPending[i]
           /\ Count("tool_result") <= Len(invocations)
           /\ \A i \in Indices("tool_result") : events[i].content.name \in CallableNames
           /\ \A i \in Indices("final") :
                  /\ events[i].content.tool_calls = ExpectedPending
                  /\ ("tool_calls" \in events[i].content.keys) = (ExpectedPending # <<>>)
    /\ pc = "done" /\ final => Count("final") = 1

C5_Witness ==
    /\ pc = "done"
    /\ final
    /\ Len(invocations) = 1
    /\ Count("tool_result") = 0
    /\ Count("tool_call") = 1
    /\ Len(tool_calls_accumulator) = 2

\* the wire schema of one tool of the caller's list
WireSchema(t) == IF t.kind = "callable" THEN FunctionSchema(t) ELSE t

\* C6: the tools field of the request is the compiled list: callables as their function
\* schemas, pre-built schemas unchanged, [] when no tools are given.
C6_RequestCarriesCompiledTools ==
    request.sent =>
        /\ Len(request.tools) = Len(tools.list)
        /\ \A i \in 1..Len(request.tools) :
               /\ request.tools[i].kind # "callable"
               /\ request.tools[i] = WireSchema(tools.list[i])

\* C7: with a structured-output schema no answer event exists while the stream is being
\* consumed; afterwards there is exactly one, it precedes every tool_call, tool_result,
\* final and done event, and it carries the decoded accumulated answer text.
C7_SingleStructuredAnswer ==
    structured_output =>
        /\ pc = "stream" \/ pc = "decode" => Count("answer") = 0
        /\ Decoded =>
               /\ Count("answer") = 1
               /\ \A i \in Indices("answer") :
                      /\ events[i].content = StructuredDecode(answer)
                      /\ \A j \in 1..Len(events) :
                             events[j].type \in {"tool_call", "tool_result", "final", "done"}
                                 => i < j

C7_Witness ==
    /\ structured_output
    /\ pc = "done"
    /\ final
    /\ answer # <<>>
    /\ Count("tool_call") = 1
    /\ events[1].type = "answer"

\* the text after the backslash escapes are undone, when that succeeds
Unescaped(text) == UnicodeEscape(text, <<>>)

\* C8: the decoder raises nothing and the structured answer is the strict JSON parse of
\* the accumulated text if there is one, else the JSON parse of the unescaped text if
\* there is one, else the accumulated text itself; the answer event and the final
\* summary carry the same value; the text {"x": 1} gives the object, not the string.
C8_ThreeTierDecode ==
    structured_output /\ Decoded =>
        /\ raised = ""
        /\ JsonLoads(answer).ok => data = JsonLoads(answer).v
        /\ ~JsonLoads(answer).ok /\ Unescaped(answer).ok /\ JsonLoads(Unescaped(answer).s).ok
               => data = JsonLoads(Unescaped(answer).s).v
        /\ ~JsonLoads(answer).ok
             /\ ~(Unescaped(answer).ok /\ JsonLoads(Unescaped(answer).s).ok)
               => data = PyStr(answer)
        /\ answer = T_JSON_X => data = PyDict(<<PyStr(<<"x">>), PyInt(1)>>)
        /\ \A i \in Indices("answer") : events[i].content = data
        /\ \A i \in Indices("final") : events[i].content.answer = data

C8_Witness ==
    /\ structured_output
    /\ pc = "done"
    /\ final
    /\ answer = T_ESCAPED_X
    /\ data = PyDict(<<PyStr(<<"x">>), PyInt(1)>>)
    /\ events[1].content = data

NonBlank(text) == \E i \in 1..Len(text) : text[i] \notin Whitespace

\* C9 as claimed: the summary has the answer; it has the reasoning field exactly when
\* thinking is not hidden and the reasoning accumulator is non-empty; it has the
\* tool_calls field exactly when the pending list is non-empty.
C9_Original ==
    \A i \in Indices("final") :
        /\ "answer" \in events[i].content.keys
        /\ ("reasoning" \in events[i].content.keys) = (~hide_thinking /\ thinking # <<>>)
        /\ ("tool_calls" \in events[i].content.keys) = (final_tool_calls # <<>>)

\* C9 amended: as claimed, but the reasoning field is there exactly when thinking is not
\* hidden and the reasoning accumulator holds a character that is not whitespace; the
\* field is then the whole accumulator, the answer is the answer value and the
\* tool_calls field the pending list.
C9_SummaryFields ==
    \A i \in Indices("final") :
        /\ "answer" \in events[i].content.keys
        /\ events[i].content.answer = (IF structured_output THEN data ELSE PyStr(answer))
        /\ ("reasoning" \in events[i].content.keys) = (~hide_thinking /\ NonBlank(thinking))
        /\ "reasoning" \in events[i].content.keys => events[i].content.reasoning = thinking
        /\ ("tool_calls" \in events[i].content.keys) = (final_tool_calls # <<>>)
        /\ "tool_calls" \in events[i].content.keys
               => events[i].content.tool_calls = final_tool_calls

C9_Witness ==
    /\ pc = "done"
    /\ ~hide_thinking
    /\ thinking = <<" ">>
    /\ \E i \in Indices("final") : "reasoning" \notin events[i].content.keys

NormalizeChunks ==
    { Chunk(TRUE, <<"a">>, <<>>, <<>>),
      Chunk(TRUE, <<>>, <<>>, <<Frag("1", "f", <<"{", "}">>)>>) }

InitNormalize ==
    /\ messages = "given"
    /\ output_format = "None"
    /\ final = TRUE
    /\ tools = ToolsArg(FALSE, <<>>)
    /\ hide_thinking = TRUE
    /\ vllm_mode = TRUE
    /\ blocks \in MessageLists
    /\ response = NotCalled
    /\ Fresh

NextNormalize ==
    \/ Start
    \/ \E c \in NormalizeChunks : Consume(c)
    \/ EndOfStream
    \/ Decode
    \/ Finalize
    \/ Dispatch
    \/ Summary
    \/ Done

SpecNormalize == InitNormalize /\ [][NextNormalize]_vars

\* the blocks of a message list, as the set of their places
Places(msgs) == UNION { {<<m, i>> : i \in DOMAIN msgs[m]} : m \in DOMAIN msgs }

Sourceless(b) == b.type = "image" /\ b.keys = {}

\* C11: in vllm mode, once the normaliser has run, either it failed with the
\* unsupported-content error, exactly when some image block supplied none of
\* image_path, image_pil and image_url, or no block of type image is left and every
\* former image block is an image_url block carrying a url.
C11_NormalizeOrFail ==
    vllm_mode /\ pc # "start" =>
        IF \E p \in Places(blocks) : Sourceless(blocks[p[1]][p[2]])
        THEN raised = "UnsupportedContentError" /\ ~request.sent
        ELSE /\ raised # "UnsupportedContentError"
             /\ \A p \in Places(blocks) :
                    LET was == blocks[p[1]][p[2]]
                        now == message_content[p[1]][p[2]]
                    IN  /\ now.type # "image"
                        /\ was.type = "image" =>
                               /\ now.type = "image_url"
                               /\ now.image_url.form = "dict"
                               /\ now.image_url.url # ""

\* the errors of the tool schema compiler and of the messages check
ConfigurationErrors == {"AttributeError", "KeyError", "ValueError"}

\* C12: whenever an error has left the generator no event has been emitted before it;
\* a configuration error leaves before the transport request is issued, and a failure
\* of the transport call leaves as the request-failed error.
C12_FatalBeforeEvents ==
    raised # "" =>
        /\ events = <<>>
        /\ raised \in ConfigurationErrors => ~request.sent
        /\ raised = "RuntimeError" => request.sent

(***************************************************************************)
(* LLM.response (lines 17-34): the caller of stream_response is response,  *)
(* which passes final=True and pulls events until it returns.              *)
(***************************************************************************)
Called == [NotCalled EXCEPT !.state = "called"]

\* lines 20-30: the messages check, then the generator is made
ResponseCall ==
    /\ response.state = "called"
    /\ response' = [response EXCEPT !.state = IF messages = "None" THEN "raised"
                                                ELSE "iterating"]
    /\ UNCHANGED <<inputs, message_content, pc, raised, request, callable_tools,
                   structured_output, thinking, answer, data, inside_think,
                   tool_calls_accumulator, final_tool_calls, todo, events, deltas,
                   invocations>>

\* mutant: the first answer event ends the loop too
IsFinal_OrAnswer(e) == e.type \in {"answer", "final"}

\* line 33
IsFinal(e) == e.type = "final"

\* line 34
ReturnValue(e) == e.content

\* lines 32-34: the event just yielded is the one the loop returns on
ResponseReturn ==
    /\ response.state = "iterating"
    /\ events # <<>>
    /\ IsFinal(events[Len(events)])
    /\ response' = [state |-> "returned", value |-> ReturnValue(events[Len(events)])]
    /\ UNCHANGED <<inputs, message_content, pc, raised, request, callable_tools,
                   structured_output, thinking, answer, data, inside_think,
                   tool_calls_accumulator, final_tool_calls, todo, events, deltas,
                   invocations>>

\* line 32: an error that leaves the generator leaves response
ResponseRaises ==
    /\ response.state = "iterating"
    /\ pc = "raised"
    /\ response' = [response EXCEPT !.state = "raised"]
    /\ UNCHANGED <<inputs, message_content, pc, raised, request, callable_tools,
                   structured_output, thinking, answer, data, inside_think,
                   tool_calls_accumulator, final_tool_calls, todo, events, deltas,
                   invocations>>

InitResponse ==
    /\ messages \in {"given", "None"}
    /\ output_format \in {"schema", "None"}
    /\ final = TRUE
    /\ tools \in ToolsMenu
    /\ hide_thinking \in BOOLEAN
    /\ vllm_mode = FALSE
    /\ blocks = <<<<TextBlock>>>>
    /\ response = Called
    /\ Fresh

\* the generator runs only when response asks for the next event, and response asks
\* for none after the final event: line 267 is never reached
NextResponse ==
    \/ ResponseCall
    \/ response.state = "iterating" /\ Start
    \/ \E c \in ChunkMenu : Consume(c)
    \/ EndOfStream
    \/ Decode
    \/ Finalize
    \/ Dispatch
    \/ Summary
    \/ ResponseReturn
    \/ ResponseRaises

SpecResponse == InitResponse /\ [][NextResponse]_vars

\* C13 as claimed: response has drained the stream through its done event and returns
\* exactly the payload of the stream's single final event.
C13_Original ==
    response.state = "returned" =>
        /\ Count("done") = 1
        /\ Count("final") = 1
        /\ \A i \in Indices("final") : response.value = events[i].content

\* C13 amended: response pulls the events of the stream up to and including its single
\* final event, never the done event, and returns exactly the payload of that final
\* event, which is the summary of the whole stream.
C13_ReturnsFinalPayload ==
    response.state = "returned" =>
        /\ Count("done") = 0
        /\ Count("final") = 1
        /\ Last(events).type = "final"
        /\ pc = "sentinel"
        /\ response.value = Last(events).content
        /\ response.value = FinalPayload(hide_thinking, thinking, data, final_tool_calls)

C13_Witness ==
    /\ response.state = "returned"
    /\ "tool_calls" \in response.value.keys
    /\ Count("tool_result") = 1
    /\ Len(events) = 3

(***************************************************************************)
(* Streams whose fragments put marker text next to marker text, and a tool *)
(* list in which a native callable has the name of a pre-built schema.     *)
(***************************************************************************)
\* "</th<think>ink>x": the close marker is there once the open marker is taken out
T_CLOSE_AROUND_OPEN == <<"<", "/", "t", "h">> \o T_OPEN \o <<"i", "n", "k", ">", "x">>

\* "<<think>think>x": an open marker is there once the open marker is taken out
T_OPEN_AROUND_OPEN == <<"<">> \o T_OPEN \o <<"t", "h", "i", "n", "k", ">", "x">>

ToolG == Tool("callable", "g", "doc of g", <<>>, "g#1")

EdgeTools ==
    { ToolsArg(TRUE, <<SchemaG, ToolG>>), ToolsArg(TRUE, <<ToolF, SchemaG, ToolF2>>) }

EdgeChunks ==
    { Chunk(TRUE, c, <<>>, <<>>) :
        c \in {<<"a">>, T_OPEN, T_CLOSE, T_THINK_HELLO_WORLD, T_CLOSE_AROUND_OPEN,
               T_OPEN_AROUND_OPEN} }
      \cup { Chunk(TRUE, <<>>, <<>>, <<f>>) : f \in {Frag("", "g", <<>>), Frag("1", "f", <<>>)} }

InitEdgeCases ==
    /\ messages = "given"
    /\ output_format \in {"schema", "None"}
    /\ final \in BOOLEAN
    /\ tools \in EdgeTools
    /\ hide_thinking \in BOOLEAN
    /\ vllm_mode = FALSE
    /\ blocks = <<<<TextBlock>>>>
    /\ response = NotCalled
    /\ Fresh

NextEdgeCases ==
    \/ Start
    \/ \E c \in EdgeChunks : Consume(c)
    \/ EndOfStream
    \/ Decode
    \/ Finalize
    \/ Dispatch
    \/ Summary
    \/ Done

SpecEdgeCases == InitEdgeCases /\ [][NextEdgeCases]_vars

RECURSIVE StripAll(_)
\* s without the marker occurrences it holds
StripAll(s) ==
    IF s = <<>> THEN s
    ELSE IF StartsWith(s, T_OPEN) THEN StripAll(Drop(s, Len(T_OPEN)))
    ELSE IF StartsWith(s, T_CLOSE) THEN StripAll(Drop(s, Len(T_CLOSE)))
    ELSE <<Head(s)>> \o StripAll(Tail(s))

HasMarker(s) == Contains(s, T_OPEN) \/ Contains(s, T_CLOSE)

RECURSIVE ContentOf(_)
\* the content fragments of the chunks, concatenated in arrival order
ContentOf(chunks) ==
    IF chunks = <<>> THEN <<>> ELSE Head(chunks).content \o ContentOf(Tail(chunks))

\* the step is one iteration of the chunk loop on a chunk with a content fragment
ConsumesContent == Len(deltas') = Len(deltas) + 1 /\ deltas'[Len(deltas')].content # <<>>

\* the step appends text to exactly one accumulator, the one inside selects, and
\* leaves the flag at inside
AppendsTo(inside, text) ==
    /\ inside_think' = inside
    /\ thinking' = (IF inside THEN thinking \o text ELSE thinking)
                     \o deltas'[Len(deltas')].reasoning
    /\ answer' = IF inside THEN answer ELSE answer \o text

\* C14 as claimed: the open marker in the fragment sets the flag, then the close
\* marker in the fragment clears it; the fragment without its marker occurrences goes
\* whole to the accumulator the flag selects; a fragment without markers leaves the flag.
C14_Original ==
    [][ConsumesContent =>
          LET fragment == deltas'[Len(deltas')].content
              state == IF Contains(fragment, T_CLOSE) THEN FALSE
                       ELSE IF Contains(fragment, T_OPEN) THEN TRUE
                       ELSE inside_think
          IN  AppendsTo(state, StripAll(fragment))]_vars

\* C14 amended: the open marker in the fragment sets the flag and its occurrences are
\* removed; then the close marker in what is left clears the flag and its occurrences
\* are removed; what is left after the two removals goes whole to the accumulator the
\* flag selects, never split; a fragment without markers leaves the flag and goes in
\* unchanged, so a stream without markers has all its content in the answer accumulator.
C14_MarkersBeforeAccumulation ==
    [][ConsumesContent =>
          LET fragment == deltas'[Len(deltas')].content
              opened == Replace(fragment, T_OPEN)
              state == IF Contains(opened, T_CLOSE) THEN FALSE
                       ELSE IF Contains(fragment, T_OPEN) THEN TRUE
                       ELSE inside_think
          IN  /\ AppendsTo(state, Replace(opened, T_CLOSE))
              /\ ~HasMarker(fragment) =>
                     inside_think' = inside_think /\ AppendsTo(inside_think, fragment)
              /\ (\A i \in 1..Len(deltas') : ~HasMarker(deltas'[i].content)) =>
                     answer' = ContentOf(deltas') /\ thinking' = <<>>]_vars

C14_Witness ==
    /\ Len(deltas) = 2
    /\ deltas[1].content = T_OPEN
    /\ deltas[2].content = T_THINK_HELLO_WORLD
    /\ ~inside_think
    /\ thinking = <<>>
    /\ answer = T_HELLO \o T_WORLD

\* the step is one iteration of the chunk loop on a chunk with a reasoning signal
ConsumesReasoning == Len(deltas') = Len(deltas) + 1 /\ deltas'[Len(deltas')].reasoning # <<>>

\* C15: a chunk's reasoning signal is appended to the reasoning accumulator whether the
\* flag is set or not; alone in its chunk it leaves the flag, the answer accumulator and
\* the tool-call accumulator as they were and, thinking shown, yields one reasoning event;
\* with a content fragment in the same chunk the content is accumulated first and the
\* content's event comes before the event of the reasoning signal.
C15_ReasoningSignal ==
    [][ConsumesReasoning =>
          LET c == deltas'[Len(deltas')]
              n == Len(events)
          IN  /\ Len(thinking') >= Len(c.reasoning)
              /\ SubSeq(thinking', Len(thinking') - Len(c.reasoning) + 1, Len(thinking'))
                     = c.reasoning
              /\ hide_thinking => events' = events \/ Len(events') = n + 1
              /\ ~hide_thinking =>
                     /\ events'[Len(events')].type = "reasoning"
                     /\ events'[Len(events')].content = PyStr(c.reasoning)
              /\ c.content = <<>> /\ c.tool_calls = <<>> =>
                     /\ thinking' = thinking \o c.reasoning
                     /\ inside_think' = inside_think
                     /\ answer' = answer
                     /\ tool_calls_accumulator' = tool_calls_accumulator
                     /\ Len(events') = IF hide_thinking THEN n ELSE n + 1
              /\ c.content # <<>> /\ ~HasMarker(c.content) =>
                     /\ inside_think' = inside_think
                     /\ tool_calls_accumulator' = tool_calls_accumulator
                     /\ thinking' = (IF inside_think THEN thinking \o c.content ELSE thinking)
                                      \o c.reasoning
                     /\ answer' = IF inside_think THEN answer ELSE answer \o c.content
                     /\ ~hide_thinking /\ (inside_think \/ ~structured_output) =>
                            /\ Len(events') = n + 2
                            /\ events'[n + 1].type =
                                   IF inside_think THEN "reasoning" ELSE "answer"
                            /\ events'[n + 1].content = PyStr(c.content)]_vars

C15_Witness ==
    /\ ~hide_thinking
    /\ Len(deltas) = 2
    /\ deltas[1].content = T_OPEN
    /\ deltas[2] = Chunk(TRUE, <<"a">>, <<"r">>, <<>>)
    /\ inside_think
    /\ thinking = <<"a", "r">>
    /\ answer = <<>>
    /\ Len(events) = 3

\* the events of tool calls
ToolEventIndices == Indices("tool_call") \cup Indices("tool_result")

\* C16: until the chunk loop has ended there is no tool_call or tool_result event, no
\* finalized (parsed) call and no invocation, so a caller that stops pulling events
\* mid-stream has caused none; in every event sequence each reasoning event and each
\* answer event comes before each tool_call and tool_result event.
C16_ToolCallsSilentMidStream ==
    /\ pc \in {"start", "stream", "decode", "finalize"} \/ (pc = "raised" /\ raised = "IndexError")
           => /\ ToolEventIndices = {}
              /\ final_tool_calls = <<>>
              /\ todo = <<>>
              /\ invocations = <<>>
    /\ \A i \in Indices("reasoning") \cup Indices("answer") :
           \A j \in ToolEventIndices : i < j

C16_Witness ==
    /\ pc = "stream"
    /\ Len(deltas) = 2
    /\ Len(tool_calls_accumulator) = 1
    /\ tool_calls_accumulator[1].name = "f"
    /\ Registered("f")
    /\ tool_calls_accumulator[1].arguments = T_ARGS_HEAD \o T_ARGS_TAIL
    /\ events = <<>>

RECURSIVE LastName(_, _, _)
\* the last non-empty name the fragments carry for id, name if there is none
LastName(frags, id, name) ==
    IF frags = <<>> THEN name
    ELSE LastName(Tail(frags), id,
                  IF IdOf(Head(frags)) = id /\ Head(frags).name # "" THEN Head(frags).name
                  ELSE name)

\* C17: at every point of the stream, and so at its end, the name of each accumulator
\* entry is the last non-empty name a fragment of its id has carried, the empty string
\* when none has; a fragment without a name leaves a stored name as it is.
C17_LastNonEmptyName ==
    /\ \A i \in 1..Len(tool_calls_accumulator) :
           tool_calls_accumulator[i].name =
               LastName(FragmentsOf(deltas), tool_calls_accumulator[i].id, "")
    /\ Decoded => \A i \in 1..Len(final_tool_calls) :
                      final_tool_calls[i].name =
                          LastName(FragmentsOf(deltas), final_tool_calls[i].id, "")

C17_Witness ==
    /\ pc = "decode"
    /\ deltas = <<Chunk(TRUE, <<>>, <<>>, <<Frag("1", "f", T_ARGS_HEAD)>>),
                  Chunk(TRUE, <<>>, <<>>, <<Frag("1", "", T_ARGS_TAIL)>>)>>
    /\ Len(tool_calls_accumulator) = 1
    /\ tool_calls_accumulator[1].name = "f"

\* the names of the pre-built schemas of the caller's tool list
SchemaNames == {tools.list[i].name : i \in {j \in 1..Len(tools.list) : tools.list[j].kind = "dict"}}

\* the function objects of the native callables of the caller's tool list
CallableFns == {tools.list[i].fn : i \in {j \in 1..Len(tools.list) : tools.list[j].kind = "callable"}}

\* the finalized calls that name a pre-built schema
SchemaCalls ==
    {FinalCall(tool_calls_accumulator[i]) :
        i \in {j \in 1..Len(tool_calls_accumulator) :
                 tool_calls_accumulator[j].name \in SchemaNames}}

Pending(call) == \E i \in 1..Len(final_tool_calls) : final_tool_calls[i] = call

Surfaced(call) == \E i \in Indices("tool_call") : events[i].content = call

Invoked(call) == \E i \in 1..Len(invocations) : invocations[i].id = call.id

\* C18 as claimed: a finalized call that names a pre-built schema is surfaced as a
\* tool_call event, stays pending and is never invoked, whatever else the list holds.
C18_Original ==
    Dispatched => \A call \in SchemaCalls : Surfaced(call) /\ Pending(call) /\ ~Invoked(call)

\* C18 amended: the invocable mapping holds native callables only, under their own
\* names; a finalized call that names a pre-built schema is surfaced, stays pending and
\* is not invoked when no native callable of the list has that name, and is dispatched
\* to the native callable, not surfaced and not pending, when one has.
C18_SchemaCallsSurfaced ==
    /\ pc # "start" /\ raised = "" =>
           /\ DOMAIN callable_tools = CallableNames
           /\ \A n \in DOMAIN callable_tools : callable_tools[n] \in CallableFns
    /\ Dispatched =>
           \A call \in SchemaCalls :
               IF call.name \in CallableNames
               THEN /\ ~Surfaced(call)
                    /\ ~Pending(call)
                    /\ call.arguments.t = "dict" =>
                           \E i \in 1..Len(invocations) :
                               /\ invocations[i].id = call.id
                               /\ invocations[i].fn = callable_tools[call.name]
               ELSE Surfaced(call) /\ Pending(call) /\ ~Invoked(call)

C18_Witness ==
    /\ Dispatched
    /\ tools = ToolsArg(TRUE, <<ToolF, SchemaG, ToolF2>>)
    /\ Len(invocations) = 1
    /\ Len(final_tool_calls) = 1
    /\ final_tool_calls[1].name = "g"
    /\ Count("tool_call") = 1

RECURSIVE TextOf(_, _)
\* the contents of the events of one type, concatenated in emission order
TextOf(evs, type) ==
    IF evs = <<>> THEN <<>>
    ELSE (IF Head(evs).type = type THEN Head(evs).content.s ELSE <<>>)
           \o TextOf(Tail(evs), type)

\* C19: at every point, with no schema requested the answer accumulator is the
\* concatenation of the contents of the answer events emitted so far, and with thinking
\* shown the reasoning accumulator is the concatenation of the contents of the reasoning
\* events emitted so far; the answer of the final summary is the concatenation of the
\* answer events, and its reasoning, when present, that of the reasoning events.
C19_EventsMatchAccumulators ==
    /\ output_format = "None" => answer = TextOf(events, "answer")
    /\ ~hide_thinking => thinking = TextOf(events, "reasoning")
    /\ output_format = "None" =>
           \A i \in Indices("final") :
               /\ events[i].content.answer = PyStr(TextOf(events, "answer"))
               /\ "reasoning" \in events[i].content.keys =>
                      events[i].content.reasoning = TextOf(events, "reasoning")
    /\ output_format = "schema" =>
           \A i \in Indices("final") :
               /\ Count("answer") = 1
               /\ \A j \in Indices("answer") : events[i].content.answer = events[j].content

C19_Witness ==
    /\ pc = "done"
    /\ output_format = "None"
    /\ ~hide_thinking
    /\ final
    /\ deltas = <<Chunk(TRUE, <<"a">>, <<"r">>, <<>>),
                  Chunk(TRUE, T_THINK_HELLO_WORLD, <<>>, <<>>)>>
    /\ answer = <<"a">> \o T_HELLO \o T_WORLD
    /\ thinking = <<"r">>
    /\ Len(events) = 5

RECURSIVE FirstSeen(_, _)
\* the ids of the fragments, each once, in the order they first appear
FirstSeen(frags, seen) ==
    IF frags = <<>> THEN seen
    ELSE FirstSeen(Tail(frags),
                   IF \E i \in 1..Len(seen) : seen[i] = IdOf(Head(frags)) THEN seen
                   ELSE Append(seen, IdOf(Head(frags))))

\* C20: at every point the accumulator has exactly one entry per id seen, a fragment
\* without an id counting as id "0", in the order the ids were first seen; each entry,
\* the "0" entry included, holds the name and the arguments of the fragments of its own
\* id only; the finalized calls are the entries in that order.
C20_OneEntryPerId ==
    LET frags == FragmentsOf(deltas)
        order == FirstSeen(frags, <<>>)
    IN  /\ Len(tool_calls_accumulator) = Len(order)
        /\ \A i \in 1..Len(order) :
               /\ tool_calls_accumulator[i].id = order[i]
               /\ tool_calls_accumulator[i].name = LastName(frags, order[i], "")
               /\ tool_calls_accumulator[i].arguments = ArgumentText(frags, order[i])
        /\ \A i, j \in 1..Len(tool_calls_accumulator) :
               tool_calls_accumulator[i].id = tool_calls_accumulator[j].id => i = j
        /\ JustFinalized =>
               /\ Len(final_tool_calls) = Len(order)
               /\ \A i \in 1..Len(order) : final_tool_calls[i].id = order[i]

C20_Witness ==
    /\ JustFinalized
    /\ deltas = <<Chunk(TRUE, <<>>, <<>>, <<Frag("2", "f", <<"1">>)>>),
                  Chunk(TRUE, <<>>, <<>>,
                        <<Frag("2", "g", <<"x">>), Frag("", "f", <<"{", "}">>)>>)>>
    /\ Len(final_tool_calls) = 2
    /\ final_tool_calls[1].id = "2"
    /\ final_tool_calls[1].name = "g"
    /\ final_tool_calls[2].id = "0"
    /\ final_tool_calls[2].arguments = PyDict(<<>>)

====
